---- MODULE Spec2Model ----
(***************************************************************************)
(* A model of tensorflow_transform/beam/tft_unit.py: TransformTestCase,    *)
(* the assertion helpers assertDataCloseOrEqual, _assertValuesCloseOrEqual,*)
(* _resolveDeferredMetadata and assertAnalyzeAndTransformResults.          *)
(*                                                                         *)
(* Python values are records [t, s, n, e]: t is the Python type ("str",    *)
(* "num", "list", "tuple"), s the characters of a str, n the number, e the *)
(* elements of a list or a tuple.  Numbers are integers counted in units   *)
(* of 1e-6, so that the 1e-6 tolerances of assertAllClose are integers.    *)
(***************************************************************************)
EXTENDS Integers, Sequences, FiniteSets, TLC

VARIABLES
    a_data,        \* assertDataCloseOrEqual: first argument
    b_data,        \* assertDataCloseOrEqual: second argument
    pc,            \* position in assertDataCloseOrEqual
    i,             \* the row index of the enumerate(zip(...)) loop
    keysLeft,      \* keys of a_row the inner loop has not visited yet
    err,           \* the exception raised by assertDataCloseOrEqual, or NoError
    log,           \* the leaf comparisons made so far, in order
    input_data,                    \* assertAnalyzeAndTransformResults: arguments
    test_data,
    expected_data,
    expected_metadata,
    only_check_core_metadata,
    expected_asset_file_contents,
    ppc,                  \* position in assertAnalyzeAndTransformResults
    transformed_data,     \* the pipeline's data (None before it ran)
    transformed_metadata, \* the pipeline's metadata wrapper (None before it ran)
    resolved_metadata,    \* what _resolveDeferredMetadata returned (None before)
    transform_fn,         \* the dataset the transform function was analyzed on
    disk,                 \* the asset files under temp_dir
    colsLeft,             \* features the core-metadata loop has not visited yet
    filesRead,            \* asset files the last loop has compared
    ops,                  \* the pipeline steps and checks performed, in order
    perr                  \* the exception leaving the call, or NoError

dataVars == <<a_data, b_data, pc, i, keysLeft, err, log>>

argVars ==
    <<input_data, test_data, expected_data, expected_metadata,
      only_check_core_metadata>>

pipeVars ==
    <<argVars, expected_asset_file_contents, ppc, transformed_data,
      transformed_metadata, resolved_metadata, transform_fn, disk, colsLeft,
      filesRead, ops, perr>>

vars == <<dataVars, pipeVars>>

\* ------------------------------------------------------------------ bounds

MaxRows == 2
MaxListLen == 2
MaxTupleLen == 3

\* ------------------------------------------------------------ Python values

Str(s) == [t |-> "str", s |-> s, n |-> 0, e |-> <<>>]
Num(n) == [t |-> "num", s |-> <<>>, n |-> n, e |-> <<>>]
List(e) == [t |-> "list", s |-> <<>>, n |-> 0, e |-> e]
Tuple(e) == [t |-> "tuple", s |-> <<>>, n |-> 0, e |-> e]

SeqsUpTo(S, n) == UNION {[1..k -> S] : k \in 0..n}

IsSeq(v) == v.t \in {"list", "tuple"}

\* The values the bounded inputs are drawn from.
Scalars ==
    {Str(<<"a">>), Str(<<"b">>), Str(<<"a", "b">>), Num(0), Num(1), Num(5)}

ListElems == {Str(<<"a">>), Num(0), Num(1), Num(5)}

Lists == {List(e) : e \in SeqsUpTo(ListElems, MaxListLen)}

Leaves == Scalars \cup Lists

TupleElems == {Str(<<"a">>), Num(0), Num(1), Num(5), List(<<Num(0)>>)}

Tuples == {Tuple(e) : e \in SeqsUpTo(TupleElems, MaxTupleLen)}

Values == Leaves \cup Tuples

Keys == {"x", "y"}

\* A row is a dict: a function from its keys to values.
RowsOver(V) == UNION {[K -> V] : K \in SUBSET Keys}

ThinValues == {Num(0), Num(5)}

DatasetsOver(R, n) == SeqsUpTo(R, n)

KeysOf(row) == DOMAIN row

\* ------------------------------------------- numpy, as the assertions use it

\* np.array(v).shape: a str or a number is a 0-d array, a list or tuple of
\* equally shaped elements an array of one more dimension, and a ragged
\* sequence a 1-d array of objects.
RECURSIVE Shape(_)
Shape(v) ==
    IF ~IsSeq(v) THEN <<>>
    ELSE IF Len(v.e) = 0 THEN <<0>>
    ELSE IF \A k \in 1..Len(v.e) : Shape(v.e[k]) = Shape(v.e[1])
         THEN <<Len(v.e)>> \o Shape(v.e[1])
         ELSE <<Len(v.e)>>

Ragged(v) ==
    IsSeq(v) /\ \E k \in 1..Len(v.e) : Shape(v.e[k]) # Shape(v.e[1])

RECURSIVE Concat(_)
Concat(ss) == IF Len(ss) = 0 THEN <<>> ELSE Head(ss) \o Concat(Tail(ss))

\* np.array(v).flat: the elements in row-major order.
RECURSIVE Flat(_)
Flat(v) ==
    IF ~IsSeq(v) \/ Ragged(v) THEN IF IsSeq(v) THEN v.e ELSE <<v>>
    ELSE Concat([k \in 1..Len(v.e) |-> Flat(v.e[k])])

\* The array has a numeric dtype: every element is a number.
NumericArray(v) == \A k \in 1..Len(Flat(v)) : Flat(v)[k].t = "num"

Abs(x) == IF x < 0 THEN -x ELSE x

\* assertAllClose's defaults rtol = 1e-6 and atol = 1e-6, in units of 1e-6:
\* |a - b| <= atol + rtol * |b|, multiplied through by 10^6.
Million == 1000000

AtolUnits == 1

IsClose(x, y) == Million * Abs(x - y) <= Million * AtolUnits + Abs(y)

\* test_util.assertAllEqual(a, b): equal shapes, then elementwise ==.
assertAllEqual(a, b) ==
    IF Shape(a) # Shape(b) THEN "AssertionError"
    ELSE IF \A k \in 1..Len(Flat(a)) : Flat(a)[k] = Flat(b)[k] THEN "ok"
    ELSE "AssertionError"

\* test_util.assertAllClose(a, b): equal shapes, then np.allclose, which
\* raises TypeError on an array that is not numeric.
assertAllClose(a, b) ==
    IF Shape(a) # Shape(b) THEN "AssertionError"
    ELSE IF ~(NumericArray(a) /\ NumericArray(b)) THEN "TypeError"
    ELSE IF \A k \in 1..Len(Flat(a)) : IsClose(Flat(a)[k].n, Flat(b)[k].n)
         THEN "ok"
    ELSE "AssertionError"

\* ----------------------------------------------------------- the test case

\* unittest's longMessage: the standard message of a failed assertion is kept
\* in front of the msg the caller passes.
longMessage == TRUE

\* An exception: its type, the check that raised it, and what its message
\* cites: the row index and key of msg (-1 and "" when absent) and the two
\* lengths of assertEqual's standard message (<<>> when absent).
Exc(type, check, row, key, lens) ==
    [type |-> type, check |-> check, row |-> row, key |-> key, lens |-> lens]

NoError == Exc("none", "", -1, "", <<>>)

\* A variant of UseAllEqual that sends the empty list to assertAllEqual too.
UseAllEqualEmptyToo(a_value) ==
    \/ a_value.t = "str"
    \/ /\ a_value.t = "list"
       /\ (Len(a_value.e) = 0 \/ a_value.e[1].t = "str")

\* Lines 61-63: the condition that selects assertAllEqual.
UseAllEqual(a_value) ==
    \/ a_value.t = "str"
    \/ /\ a_value.t = "list"
       /\ Len(a_value.e) > 0
       /\ a_value.e[1].t = "str"

\* A variant of ValuesCloseOrEqual without the string branch.
ValuesCloseOnly(a_value, b_value) == assertAllClose(a_value, b_value)

\* _assertValuesCloseOrEqual(a_value, b_value): the type of the exception that
\* leaves it ("ok" when none does). The except clause adds msg to the
\* exception's args and re-raises the same exception.
ValuesCloseOrEqual(a_value, b_value) ==
    IF UseAllEqual(a_value) THEN assertAllEqual(a_value, b_value)
    ELSE assertAllClose(a_value, b_value)

\* A variant of Reraise that turns every exception into an assertion error.
ReraiseAsAssertionError(type, row, key) ==
    Exc("AssertionError", "value", row, key, <<>>)

\* Lines 67-70: msg ('Row %d, key %s') is appended to the caught exception's
\* message and the exception itself is raised again.
Reraise(type, row, key) == Exc(type, "value", row, key, <<>>)

\* One call of _assertValuesCloseOrEqual, as the log keeps it.
Comparison(row, key, a_value, b_value) ==
    [row |-> row, key |-> key, a |-> a_value, b |-> b_value,
     exact |-> UseAllEqual(a_value),
     outcome |-> ValuesCloseOrEqual(a_value, b_value)]

\* v[k] for a 0-based k: the exception type it raises ("ok" when none).
IndexExc(v, k) ==
    IF v.t = "num" THEN "TypeError"
    ELSE IF v.t = "str" THEN IF k < Len(v.s) THEN "ok" ELSE "IndexError"
    ELSE IF k < Len(v.e) THEN "ok" ELSE "IndexError"

IndexVal(v, k) == IF v.t = "str" THEN Str(<<v.s[k + 1]>>) ELSE v.e[k + 1]

\* A variant of PairWidth that stops after element 0.
PairWidthFirstOnly == 2 - 1

\* The number of elements of a tuple the code compares (lines 54-55).
PairWidth == 2

\* Lines 50-57 for one key: the comparisons made, in order, and the exception
\* raised (NoError when the key passes). Subscripting happens while the
\* arguments of the call are evaluated, a_value's before b_value's, outside
\* the try block: its exception carries no msg.
RECURSIVE TupleSteps(_, _, _, _, _)
TupleSteps(row, key, a_value, b_value, k) ==
    IF k >= PairWidth THEN [cmps |-> <<>>, exc |-> NoError]
    ELSE IF IndexExc(a_value, k) # "ok"
         THEN [cmps |-> <<>>,
               exc |-> Exc(IndexExc(a_value, k), "index", -1, "", <<>>)]
    ELSE IF IndexExc(b_value, k) # "ok"
         THEN [cmps |-> <<>>,
               exc |-> Exc(IndexExc(b_value, k), "index", -1, "", <<>>)]
    ELSE LET c == Comparison(row, key, IndexVal(a_value, k),
                             IndexVal(b_value, k))
             rest == TupleSteps(row, key, a_value, b_value, k + 1)
         IN  IF c.outcome # "ok"
             THEN [cmps |-> <<c>>,
                   exc |-> Reraise(c.outcome, row, key)]
             ELSE [cmps |-> <<c>> \o rest.cmps, exc |-> rest.exc]

KeySteps(row, key, a_value, b_value) ==
    IF a_value.t = "tuple" THEN TupleSteps(row, key, a_value, b_value, 0)
    ELSE LET c == Comparison(row, key, a_value, b_value)
         IN  [cmps |-> <<c>>,
              exc |-> IF c.outcome = "ok" THEN NoError
                      ELSE Reraise(c.outcome, row, key)]

\* A variant of LenDiffers that lets zip truncate a longer b_data.
LenDiffersOnlyLonger(a, b) == Len(a) > Len(b)

\* Line 45: assertEqual(len(a_data), len(b_data), msg).
LenDiffers(a, b) == Len(a) # Len(b)

LenError(a, b) ==
    Exc("AssertionError", "len", -1, "",
        IF longMessage THEN <<Len(a), Len(b)>> ELSE <<>>)

\* A variant of ItemsDiffer that only looks for keys of a_row missing in b_row.
ItemsDifferOneWay(a_row, b_row) == ~(KeysOf(a_row) \subseteq KeysOf(b_row))

\* Line 48: assertItemsEqual(a_row.keys(), b_row.keys(), msg='Row %d' % i).
ItemsDiffer(a_row, b_row) == KeysOf(a_row) # KeysOf(b_row)

\* -------------------------------------------- assertDataCloseOrEqual, by step

\* Line 45.
AssertLen ==
    /\ pc = "len"
    /\ IF LenDiffers(a_data, b_data)
       THEN /\ err' = LenError(a_data, b_data)
            /\ pc' = "raised"
       ELSE /\ err' = err
            /\ pc' = "row"
    /\ UNCHANGED <<a_data, b_data, i, keysLeft, log, pipeVars>>

\* Lines 47-48: the next pair of zip, and the check of its keys.
AssertRowKeys ==
    /\ pc = "row"
    /\ i < Len(a_data)
    /\ IF ItemsDiffer(a_data[i + 1], b_data[i + 1])
       THEN /\ err' = Exc("AssertionError", "items", i, "", <<>>)
            /\ pc' = "raised"
            /\ keysLeft' = keysLeft
       ELSE /\ err' = err
            /\ pc' = "key"
            /\ keysLeft' = KeysOf(a_data[i + 1])
    /\ UNCHANGED <<a_data, b_data, i, log, pipeVars>>

\* Lines 49-57 for the next key of a_row.keys(), whose order the dict decides.
CompareKey ==
    /\ pc = "key"
    /\ \E key \in keysLeft :
         LET r == KeySteps(i, key, a_data[i + 1][key], b_data[i + 1][key])
         IN  /\ log' = log \o r.cmps
             /\ keysLeft' = keysLeft \ {key}
             /\ IF r.exc # NoError
                THEN /\ err' = r.exc
                     /\ pc' = "raised"
                ELSE /\ err' = err
                     /\ pc' = "key"
    /\ UNCHANGED <<a_data, b_data, i, pipeVars>>

\* The inner loop is exhausted: on to the next row.
NextRow ==
    /\ pc = "key"
    /\ keysLeft = {}
    /\ i' = i + 1
    /\ pc' = "row"
    /\ UNCHANGED <<a_data, b_data, keysLeft, err, log, pipeVars>>

\* zip is exhausted: assertDataCloseOrEqual returns.
DataReturn ==
    /\ pc = "row"
    /\ i >= Len(a_data)
    /\ pc' = "done"
    /\ UNCHANGED <<a_data, b_data, i, keysLeft, err, log, pipeVars>>

NextData == AssertLen \/ AssertRowKeys \/ CompareKey \/ NextRow \/ DataReturn

\* ------------------------------------------------ metadata and the pipeline

None == <<>>

Some(v) == <<v>>

\* A column schema: representation and domain dtype, the core fields, and a
\* field only the implementation cares about.
ColumnSchema(representation, dtype, vocabulary_file) ==
    [representation |-> representation, dtype |-> dtype,
     vocabulary_file |-> vocabulary_file]

ColumnSchemas ==
    {ColumnSchema("fixed", "int64", ""), ColumnSchema("fixed", "int64", "vocab"),
     ColumnSchema("list", "int64", ""), ColumnSchema("fixed", "float32", "")}

\* schema.column_schemas: a dict from feature names to column schemas.
TransformedSchemas ==
    [{"f"} -> {ColumnSchema("fixed", "int64", ""),
               ColumnSchema("fixed", "int64", "vocab")}]
        \cup {[f |-> ColumnSchema("fixed", "int64", ""), g |-> c] :
                 c \in {ColumnSchema("fixed", "int64", ""),
                        ColumnSchema("fixed", "float32", "")}}

Schemas ==
    [{"f"} -> ColumnSchemas]
        \cup [{"g"} -> {ColumnSchema("fixed", "int64", "")}]
        \cup TransformedSchemas

\* A DatasetMetadata: its schema, what else it holds, and the placeholders
\* (futures) not yet replaced by values.
Metadata(schema, statistics, futures) ==
    [schema |-> schema, statistics |-> statistics, futures |-> futures]

ExpectedMetadatas ==
    {Metadata(sc, st, {}) : sc \in Schemas, st \in {"s0", "s1"}}

\* What the pipeline hands back as metadata: the metadata, and the
\* PCollections its futures are to be resolved from.
Wrappers ==
    {[dataset_metadata |-> Metadata(sc, st, fu), pcollections |-> pcs] :
        sc \in TransformedSchemas, st \in {"s0", "s1"},
        fu \in SUBSET {"future"}, pcs \in SUBSET {"future"}}

ThinRow(n) == [x |-> Num(n)]

PipelineOutputs == {<<ThinRow(0)>>, <<ThinRow(5)>>}

\* Dicts from asset filenames to lines.
ExpectedAssetDicts ==
    {<<>>, [v1 |-> <<"a\n">>], [v1 |-> <<"a\n">>, v2 |-> <<"a\n">>]}

WrittenAssetDicts ==
    {[v1 |-> <<"a\n">>], [v1 |-> <<"b\n">>]}
        \cup [{"v1", "v2"} -> {<<"a\n">>, <<"b\n">>}]

Op(op, on) == [op |-> op, on |-> on]

\* Lines 135-143.
Enter ==
    /\ ppc = "start"
    /\ expected_asset_file_contents' =
           IF expected_asset_file_contents = None THEN Some(<<>>)
           ELSE expected_asset_file_contents
    /\ ppc' = "pipeline"
    /\ UNCHANGED <<dataVars, argVars, transformed_data, transformed_metadata,
                   resolved_metadata, transform_fn, disk, colsLeft, filesRead,
                   ops, perr>>

\* A variant of UseFused that tests the truth value of test_data.
UseFusedIfFalsy(data) == data = None \/ data = Some(<<>>)

\* Line 144.
UseFused(data) == data = None

\* Lines 145-147: AnalyzeAndTransformDataset on input_data.
AnalyzeAndTransform ==
    /\ ppc = "pipeline"
    /\ UseFused(test_data)
    /\ transformed_data' \in {Some(d) : d \in PipelineOutputs}
    /\ transformed_metadata' \in {Some(w) : w \in Wrappers}
    /\ transform_fn' = "input_data"
    /\ ops' = Append(ops, Op("AnalyzeAndTransformDataset", "input_data"))
    /\ ppc' = "write"
    /\ UNCHANGED <<dataVars, argVars, expected_asset_file_contents,
                   resolved_metadata, disk, colsLeft, filesRead, perr>>

\* Lines 149-150: AnalyzeDataset on input_data.
Analyze ==
    /\ ppc = "pipeline"
    /\ ~UseFused(test_data)
    /\ transform_fn' = "input_data"
    /\ ops' = Append(ops, Op("AnalyzeDataset", "input_data"))
    /\ ppc' = "transform"
    /\ UNCHANGED <<dataVars, argVars, expected_asset_file_contents,
                   transformed_data, transformed_metadata, resolved_metadata,
                   disk, colsLeft, filesRead, perr>>

\* Lines 151-153: TransformDataset on test_data with transform_fn.
Transform ==
    /\ ppc = "transform"
    /\ transformed_data' \in {Some(d) : d \in PipelineOutputs}
    /\ transformed_metadata' \in {Some(w) : w \in Wrappers}
    /\ ops' = Append(ops, Op("TransformDataset", "test_data"))
    /\ ppc' = "write"
    /\ UNCHANGED <<dataVars, argVars, expected_asset_file_contents,
                   resolved_metadata, transform_fn, disk, colsLeft, filesRead,
                   perr>>

\* A variant of PersistNeeded that never writes the transform function.
PersistNever(assets) == FALSE

\* Line 156: the truth value of the dict.
PersistNeeded(assets) == DOMAIN assets # {}

\* Lines 156-157: WriteTransformFn(temp_dir), which writes the asset files.
WriteTransformFn ==
    /\ ppc = "write"
    /\ IF PersistNeeded(expected_asset_file_contents[1])
       THEN /\ disk' \in WrittenAssetDicts
            /\ ops' = Append(ops, Op("WriteTransformFn", "transform_fn"))
       ELSE UNCHANGED <<disk, ops>>
    /\ ppc' = "check_data"
    /\ UNCHANGED <<dataVars, argVars, expected_asset_file_contents,
                   transformed_data, transformed_metadata, resolved_metadata,
                   transform_fn, colsLeft, filesRead, perr>>

\* Lines 159-160: the call of assertDataCloseOrEqual.
CheckData ==
    /\ ppc = "check_data"
    /\ expected_data # None
    /\ a_data' = expected_data[1]
    /\ b_data' = transformed_data[1]
    /\ pc' = "len"
    /\ ops' = Append(ops, Op("assertDataCloseOrEqual", "expected_data"))
    /\ ppc' = "in_data"
    /\ UNCHANGED <<i, keysLeft, err, log, argVars,
                   expected_asset_file_contents, transformed_data,
                   transformed_metadata, resolved_metadata, transform_fn, disk,
                   colsLeft, filesRead, perr>>

\* Line 159: no expected data.
SkipData ==
    /\ ppc = "check_data"
    /\ expected_data = None
    /\ ppc' = "check_metadata"
    /\ UNCHANGED <<dataVars, argVars, expected_asset_file_contents,
                   transformed_data, transformed_metadata, resolved_metadata,
                   transform_fn, disk, colsLeft, filesRead, ops, perr>>

\* assertDataCloseOrEqual has returned or raised.
DataChecked ==
    /\ ppc = "in_data"
    /\ pc \in {"done", "raised"}
    /\ IF pc = "raised"
       THEN perr' = err /\ ppc' = "raised"
       ELSE perr' = perr /\ ppc' = "check_metadata"
    /\ UNCHANGED <<dataVars, argVars, expected_asset_file_contents,
                   transformed_data, transformed_metadata, resolved_metadata,
                   transform_fn, disk, colsLeft, filesRead, ops>>

\* Line 162: no expected metadata.
SkipMetadata ==
    /\ ppc = "check_metadata"
    /\ expected_metadata = None
    /\ ppc' = "assets"
    /\ UNCHANGED <<dataVars, argVars, expected_asset_file_contents,
                   transformed_data, transformed_metadata, resolved_metadata,
                   transform_fn, disk, colsLeft, filesRead, ops, perr>>

\* A variant of HasPCollections with the two branches swapped.
HasNoPCollections(wrapper) == wrapper.pcollections = {}

\* Line 78: the truth value of transformed_metadata.pcollections.
HasPCollections(wrapper) == wrapper.pcollections # {}

\* Lines 79-80: what ResolveBeamFutures(None) may yield as its first element:
\* the metadata with some of its futures replaced.
ResolveBeamFutures(wrapper) ==
    {Metadata(wrapper.dataset_metadata.schema,
              wrapper.dataset_metadata.statistics, fu) :
        fu \in SUBSET wrapper.dataset_metadata.futures}

\* Line 85: substitute_futures({}), the futures still unresolved.
substitute_futures(metadata) == metadata.futures

\* Lines 163 and 72-87: _resolveDeferredMetadata(transformed_metadata).
ResolveDeferredMetadata ==
    /\ ppc = "check_metadata"
    /\ expected_metadata # None
    /\ LET wrapper == transformed_metadata[1]
       IN  \E metadata \in
                 IF HasPCollections(wrapper) THEN ResolveBeamFutures(wrapper)
                 ELSE {wrapper.dataset_metadata} :
             /\ ops' = Append(ops,
                    Op("_resolveDeferredMetadata",
                       IF HasPCollections(wrapper) THEN "ResolveBeamFutures"
                       ELSE "dataset_metadata"))
             /\ IF substitute_futures(metadata) # {}
                THEN /\ perr' = Exc("AssertionError", "unresolved", -1, "", <<>>)
                     /\ ppc' = "raised"
                     /\ resolved_metadata' = resolved_metadata
                ELSE /\ perr' = perr
                     /\ resolved_metadata' = Some(metadata)
                     /\ ppc' = IF only_check_core_metadata THEN "core_names"
                               ELSE "full_schema"
    /\ UNCHANGED <<dataVars, argVars, expected_asset_file_contents,
                   transformed_data, transformed_metadata, transform_fn, disk,
                   colsLeft, filesRead>>

\* Lines 169-171: assertSameElements of the two schemas' feature names.
CoreNames ==
    /\ ppc = "core_names"
    /\ ops' = Append(ops, Op("core names", ""))
    /\ IF DOMAIN resolved_metadata[1].schema # DOMAIN expected_metadata[1].schema
       THEN /\ perr' = Exc("AssertionError", "core names", -1, "", <<>>)
            /\ ppc' = "raised"
            /\ colsLeft' = colsLeft
       ELSE /\ perr' = perr
            /\ ppc' = "core_columns"
            /\ colsLeft' = DOMAIN resolved_metadata[1].schema
    /\ UNCHANGED <<dataVars, argVars, expected_asset_file_contents,
                   transformed_data, transformed_metadata, resolved_metadata,
                   transform_fn, disk, filesRead>>

\* A variant of CoreColumnError that forgets the dtype.
CoreColumnErrorNoDtype(expected_schema, v) ==
    IF expected_schema.representation # v.representation
    THEN "representation" ELSE ""

\* Lines 174-177: the assertion that fails for one feature ("" when none).
CoreColumnError(expected_schema, v) ==
    IF expected_schema.representation # v.representation THEN "representation"
    ELSE IF expected_schema.dtype # v.dtype THEN "dtype"
    ELSE ""

\* Lines 172-177 for the next feature of the transformed schema, whose order
\* the dict decides.
CoreColumn ==
    /\ ppc = "core_columns"
    /\ \E k \in colsLeft :
         LET e == CoreColumnError(expected_metadata[1].schema[k],
                                  resolved_metadata[1].schema[k])
         IN  /\ ops' = Append(ops, Op("core column", k))
             /\ colsLeft' = colsLeft \ {k}
             /\ IF e # ""
                THEN perr' = Exc("AssertionError", e, -1, k, <<>>)
                     /\ ppc' = "raised"
                ELSE perr' = perr /\ ppc' = ppc
    /\ UNCHANGED <<dataVars, argVars, expected_asset_file_contents,
                   transformed_data, transformed_metadata, resolved_metadata,
                   transform_fn, disk, filesRead>>

\* The loop of line 172 is exhausted.
CoreDone ==
    /\ ppc = "core_columns"
    /\ colsLeft = {}
    /\ ppc' = "assets"
    /\ UNCHANGED <<dataVars, argVars, expected_asset_file_contents,
                   transformed_data, transformed_metadata, resolved_metadata,
                   transform_fn, disk, colsLeft, filesRead, ops, perr>>

\* Lines 182-183: assertEqual of the two column_schemas.
FullSchema ==
    /\ ppc = "full_schema"
    /\ ops' = Append(ops, Op("full schema", ""))
    /\ IF expected_metadata[1].schema # resolved_metadata[1].schema
       THEN /\ perr' = Exc("AssertionError", "full schema", -1, "", <<>>)
            /\ ppc' = "raised"
       ELSE /\ perr' = perr
            /\ ppc' = "full_metadata"
    /\ UNCHANGED <<dataVars, argVars, expected_asset_file_contents,
                   transformed_data, transformed_metadata, resolved_metadata,
                   transform_fn, disk, colsLeft, filesRead>>

\* Line 184: assertEqual of the two DatasetMetadata.
FullMetadata ==
    /\ ppc = "full_metadata"
    /\ ops' = Append(ops, Op("full metadata", ""))
    /\ IF expected_metadata[1] # resolved_metadata[1]
       THEN /\ perr' = Exc("AssertionError", "full metadata", -1, "", <<>>)
            /\ ppc' = "raised"
       ELSE /\ perr' = perr
            /\ ppc' = "assets"
    /\ UNCHANGED <<dataVars, argVars, expected_asset_file_contents,
                   transformed_data, transformed_metadata, resolved_metadata,
                   transform_fn, disk, colsLeft, filesRead>>

\* Lines 186-190 for the next item of expected_asset_file_contents: the file
\* is opened (NotFoundError when it is not there) and its lines compared.
ReadAsset ==
    /\ ppc = "assets"
    /\ \E filename \in DOMAIN expected_asset_file_contents[1] \ filesRead :
         /\ ops' = Append(ops, Op("asset file", filename))
         /\ filesRead' = filesRead \cup {filename}
         /\ IF filename \notin DOMAIN disk
            THEN /\ perr' = Exc("NotFoundError", "asset open", -1, filename, <<>>)
                 /\ ppc' = "raised"
            ELSE IF disk[filename] # expected_asset_file_contents[1][filename]
            THEN /\ perr' = Exc("AssertionError", "asset file", -1, filename, <<>>)
                 /\ ppc' = "raised"
            ELSE /\ perr' = perr
                 /\ ppc' = ppc
    /\ UNCHANGED <<dataVars, argVars, expected_asset_file_contents,
                   transformed_data, transformed_metadata, resolved_metadata,
                   transform_fn, disk, colsLeft>>

\* The loop of line 186 is exhausted: the call returns.
Return ==
    /\ ppc = "assets"
    /\ DOMAIN expected_asset_file_contents[1] \subseteq filesRead
    /\ ppc' = "returned"
    /\ UNCHANGED <<dataVars, argVars, expected_asset_file_contents,
                   transformed_data, transformed_metadata, resolved_metadata,
                   transform_fn, disk, colsLeft, filesRead, ops, perr>>

Next ==
    \/ Enter \/ AnalyzeAndTransform \/ Analyze \/ Transform \/ WriteTransformFn
    \/ CheckData \/ SkipData \/ DataChecked
    \/ SkipMetadata \/ ResolveDeferredMetadata
    \/ CoreNames \/ CoreColumn \/ CoreDone \/ FullSchema \/ FullMetadata
    \/ ReadAsset \/ Return
    \/ NextData

\* No call of assertDataCloseOrEqual is under way.
DataIdle ==
    /\ a_data = <<>>
    /\ b_data = <<>>
    /\ pc = "idle"
    /\ i = 0
    /\ keysLeft = {}
    /\ err = NoError
    /\ log = <<>>

\* No call of assertAnalyzeAndTransformResults is under way.
PipelineIdle ==
    /\ input_data = <<>>
    /\ test_data = None
    /\ expected_data = None
    /\ expected_metadata = None
    /\ only_check_core_metadata = FALSE
    /\ expected_asset_file_contents = None
    /\ ppc = "direct"
    /\ transformed_data = None
    /\ transformed_metadata = None
    /\ resolved_metadata = None
    /\ transform_fn = ""
    /\ disk = <<>>
    /\ colsLeft = {}
    /\ filesRead = {}
    /\ ops = <<>>
    /\ perr = NoError

\* A call assertAnalyzeAndTransformResults(input_data, input_metadata,
\* preprocessing_fn, ...) with its optional arguments given or left out.
Init ==
    /\ DataIdle
    /\ input_data = <<ThinRow(0)>>
    /\ test_data \in {None, Some(<<>>), Some(<<ThinRow(0)>>), Some(<<ThinRow(5)>>)}
    /\ expected_data \in {None, Some(<<>>), Some(<<ThinRow(0)>>)}
    /\ expected_metadata \in {None} \cup {Some(m) : m \in ExpectedMetadatas}
    /\ only_check_core_metadata \in BOOLEAN
    /\ expected_asset_file_contents \in
           {None} \cup {Some(d) : d \in ExpectedAssetDicts}
    /\ ppc = "start"
    /\ transformed_data = None
    /\ transformed_metadata = None
    /\ resolved_metadata = None
    /\ transform_fn = ""
    /\ disk = <<>>
    /\ colsLeft = {}
    /\ filesRead = {}
    /\ ops = <<>>
    /\ perr = NoError

Spec == Init /\ [][Next]_vars

\* A direct call assertDataCloseOrEqual(a_data, b_data): two datasets of
\* two-key rows over a few numbers, or two one-row datasets over every value.
InitData ==
    /\ \/ /\ a_data \in DatasetsOver(RowsOver({Num(0)}), MaxRows)
          /\ b_data \in DatasetsOver(RowsOver(ThinValues), MaxRows)
       \/ /\ a_data \in {<<[x |-> v]>> : v \in Values}
          /\ b_data \in {<<[x |-> v]>> : v \in Values}
    /\ pc = "len"
    /\ i = 0
    /\ keysLeft = {}
    /\ err = NoError
    /\ log = <<>>
    /\ PipelineIdle

SpecData == InitData /\ [][NextData]_vars

\* ------------------------------------------------ what the claims speak of

Returned == pc = "done"

Raised == pc = "raised"

Finished == Returned \/ Raised

Rows1(d) == 1..Len(d)

\* One row lacks a field the other row has.
MissingField(a_row, b_row) ==
    \E k \in Keys : (k \in DOMAIN a_row) # (k \in DOMAIN b_row)

SameFieldSets(a, b) ==
    /\ Len(a) = Len(b)
    /\ \A r \in Rows1(a) : ~MissingField(a[r], b[r])

\* Equality of two values as the specification words it: strings exactly,
\* numbers within the tolerance, sequences element by element.
RECURSIVE ValuesMatch(_, _)
ValuesMatch(v, w) ==
    /\ v.t = w.t
    /\ CASE v.t = "str" -> v.s = w.s
         [] v.t = "num" -> IsClose(v.n, w.n)
         [] OTHER -> /\ Len(v.e) = Len(w.e)
                     /\ \A k \in 1..Len(v.e) : ValuesMatch(v.e[k], w.e[k])

DataMatch(a, b) ==
    \A r \in Rows1(a) : \A k \in DOMAIN a[r] : ValuesMatch(a[r][k], b[r][k])

\* The values the docstring of assertDataCloseOrEqual admits: strings, lists
\* of strings, numbers (and lists of numbers), or a pair of those.
DocumentedLeaf(v) ==
    \/ v.t \in {"str", "num"}
    \/ /\ v.t = "list"
       /\ \/ \A k \in 1..Len(v.e) : v.e[k].t = "str"
          \/ \A k \in 1..Len(v.e) : v.e[k].t = "num"

DocumentedValue(v) ==
    \/ DocumentedLeaf(v)
    \/ /\ v.t = "tuple"
       /\ Len(v.e) = 2
       /\ DocumentedLeaf(v.e[1])
       /\ DocumentedLeaf(v.e[2])

DocumentedData(d) ==
    \A r \in Rows1(d) : \A k \in DOMAIN d[r] : DocumentedValue(d[r][k])

\* A pair faces a pair and a single value a single value.
SameKinds(a, b) ==
    \A r \in Rows1(a) : \A k \in DOMAIN a[r] :
        (a[r][k].t = "tuple") = (b[r][k].t = "tuple")

\* C1 as stated: for datasets of equal length with identical field sets,
\* whatever the shape of their values (tuples of any length included),
\* assertDataCloseOrEqual(A, A) succeeds and assertDataCloseOrEqual(A, B)
\* succeeds if and only if every field's values are equal.
C1_AnyShape ==
    (Finished /\ SameFieldSets(a_data, b_data)) =>
        /\ (a_data = b_data => Returned)
        /\ (Returned <=> DataMatch(a_data, b_data))

\* C1, amended: for datasets of equal length with identical field sets whose
\* values are strings, numbers, lists of strings, lists of numbers or pairs
\* of those, a pair facing a pair, assertDataCloseOrEqual(A, A) succeeds and
\* assertDataCloseOrEqual(A, B) succeeds if and only if every field's values
\* are equal (exactly for strings, within tolerance for numbers).
C1_DocumentedValues ==
    (/\ Finished
     /\ SameFieldSets(a_data, b_data)
     /\ DocumentedData(a_data)
     /\ DocumentedData(b_data)
     /\ SameKinds(a_data, b_data)) =>
        /\ (a_data = b_data => Returned)
        /\ (Returned <=> DataMatch(a_data, b_data))

\* A call on two different datasets that match within tolerance, one field a
\* pair of lists, has returned.
C1_Witness ==
    /\ Returned
    /\ a_data = <<[x |-> Tuple(<<List(<<Num(0)>>), Num(0)>>)]>>
    /\ b_data = <<[x |-> Tuple(<<List(<<Num(0)>>), Num(1)>>)]>>
    /\ Len(log) = 2

\* C2: for two datasets of differing length assertDataCloseOrEqual fails with
\* an assertion error whose message cites both lengths, whatever the rows
\* hold, and before any row is looked at.
C2_LengthMismatchFails ==
    (pc # "len" /\ Len(a_data) # Len(b_data)) =>
        /\ Raised
        /\ err.type = "AssertionError"
        /\ err.check = "len"
        /\ err.lens = <<Len(a_data), Len(b_data)>>
        /\ log = <<>>

\* The call has failed on a first dataset that is a row-by-row prefix of the
\* second.
C2_Witness ==
    /\ Raised
    /\ Len(a_data) = 1
    /\ Len(b_data) = 2
    /\ a_data[1] = b_data[1]
    /\ err.lens = <<1, 2>>

\* No field value of row r (0-based) has been compared.
RowUncompared(r) == \A n \in 1..Len(log) : log[n].row # r

\* Every key of the two rows compares without an exception.
RowPasses(a_row, b_row) ==
    \A k \in DOMAIN a_row :
        KeySteps(0, k, a_row[k], b_row[k]).exc = NoError

BothPairs(v, w) ==
    /\ v.t = "tuple"
    /\ w.t = "tuple"
    /\ Len(v.e) = 2
    /\ Len(w.e) = 2

\* The closeness/equality rule holds of two leaf values.
RuleHolds(v, w) == ValuesCloseOrEqual(v, w) = "ok"

\* C4: where a field is a pair in both datasets, the call succeeds only if
\* element 0 matches element 0 and element 1 matches element 1; a mismatch of
\* either element alone makes it fail, with an error that cites the field.
C4_PairElementsBothCompared ==
    (Finished /\ SameFieldSets(a_data, b_data)) =>
        \A r \in Rows1(a_data) : \A k \in DOMAIN a_data[r] :
            LET v == a_data[r][k]
                w == b_data[r][k]
            IN  BothPairs(v, w) =>
                    /\ Returned =>
                           RuleHolds(v.e[1], w.e[1]) /\ RuleHolds(v.e[2], w.e[2])
                    /\ ~(RuleHolds(v.e[1], w.e[1]) /\ RuleHolds(v.e[2], w.e[2]))
                           => Raised /\ err.row = r - 1 /\ err.key = k
                    /\ (Len(a_data) = 1 /\ DOMAIN a_data[r] = {k}) =>
                           (Returned <=>
                               /\ RuleHolds(v.e[1], w.e[1])
                               /\ RuleHolds(v.e[2], w.e[2]))

\* The call has failed on a pair whose element 0 matches and whose element 1
\* alone does not, after comparing both.
C4_Witness ==
    /\ Raised
    /\ a_data = <<[x |-> Tuple(<<List(<<Num(0)>>), Num(0)>>)]>>
    /\ b_data = <<[x |-> Tuple(<<List(<<Num(0)>>), Num(5)>>)]>>
    /\ Len(log) = 2
    /\ log[1].outcome = "ok"
    /\ err.key = "x"

FirstValueIsStringy(v) ==
    \/ v.t = "str"
    \/ (v.t = "list" /\ v.e # <<>> /\ Head(v.e).t = "str")

\* C7: a leaf comparison is exact equality when the first value is a string
\* or a non-empty list whose first element is a string, and approximate
\* closeness in every other case (the empty list and a list whose first
\* element is no string included); the second value has no say.
C7_PathFromFirstValueAlone ==
    \A n \in 1..Len(log) :
        /\ log[n].exact = FirstValueIsStringy(log[n].a)
        /\ log[n].outcome =
               IF FirstValueIsStringy(log[n].a)
               THEN assertAllEqual(log[n].a, log[n].b)
               ELSE assertAllClose(log[n].a, log[n].b)

\* An empty list has been compared with a list of strings by closeness.
C7_Witness ==
    /\ Len(log) = 1
    /\ log[1].a = List(<<>>)
    /\ log[1].b = List(<<Str(<<"a">>)>>)
    /\ ~log[1].exact
    /\ Finished

\* The two schemas name the same features and agree, feature by feature, on
\* representation and domain dtype.
CoreAgree(transformed, expected) ==
    /\ DOMAIN transformed = DOMAIN expected
    /\ \A k \in DOMAIN transformed :
           /\ transformed[k].representation = expected[k].representation
           /\ transformed[k].dtype = expected[k].dtype

MetadataChecks ==
    {"core names", "representation", "dtype", "full schema", "full metadata"}

HasOp(name) == \E n \in 1..Len(ops) : ops[n].op = name

\* C6: with only_check_core_metadata=True and expected metadata supplied, the
\* metadata check made on the resolved metadata passes exactly when the
\* transformed and the expected schema name the same features and agree on
\* every feature's representation and domain dtype; no other difference
\* makes it fail, and neither the full schema nor the full metadata is
\* compared.
C6_CoreMetadataOnly ==
    (/\ only_check_core_metadata
     /\ expected_metadata # None
     /\ resolved_metadata # None) =>
        /\ ~HasOp("full schema")
        /\ ~HasOp("full metadata")
        /\ ppc \notin {"core_names", "core_columns"} =>
               ((ppc = "raised" /\ perr.check \in MetadataChecks) <=>
                    ~CoreAgree(resolved_metadata[1].schema,
                               expected_metadata[1].schema))

\* A call has returned although the transformed metadata differ from the
\* expected ones in a vocabulary file and in what lies outside the schema.
C6_Witness ==
    /\ ppc = "returned"
    /\ only_check_core_metadata
    /\ expected_metadata # None
    /\ resolved_metadata # None
    /\ HasOp("core column")
    /\ DOMAIN expected_metadata[1].schema = {"f"}
    /\ expected_metadata[1].schema["f"].vocabulary_file
           # resolved_metadata[1].schema["f"].vocabulary_file
    /\ expected_metadata[1].statistics # resolved_metadata[1].statistics

PipelineOpNames ==
    {"AnalyzeAndTransformDataset", "AnalyzeDataset", "TransformDataset"}

IsPipelineOp(o) == o.op \in PipelineOpNames

PipelineRan == ppc \notin {"start", "pipeline", "transform"}

\* C8: the mode depends only on whether test_data is None. When it is None
\* one fused AnalyzeAndTransformDataset runs on input_data and nothing else;
\* otherwise AnalyzeDataset runs on input_data and then TransformDataset on
\* test_data, also when test_data equals input_data or is empty.
C8_ModeByTestDataNone ==
    LET ran == SelectSeq(ops, IsPipelineOp)
        fused == <<Op("AnalyzeAndTransformDataset", "input_data")>>
        separate == <<Op("AnalyzeDataset", "input_data"),
                      Op("TransformDataset", "test_data")>>
    IN  /\ ppc = "transform" => ran = SubSeq(separate, 1, 1)
        /\ PipelineRan =>
               /\ ran = IF test_data = None THEN fused ELSE separate
               /\ ran = SubSeq(ops, 1, Len(ran))
               /\ transform_fn = "input_data"

\* A call with test_data equal to input_data has returned after the two
\* separate steps.
C8_Witness ==
    /\ ppc = "returned"
    /\ test_data = Some(input_data)
    /\ ops[1] = Op("AnalyzeDataset", "input_data")
    /\ ops[2] = Op("TransformDataset", "test_data")

ResolveOps == SelectSeq(ops, LAMBDA o : o.op = "_resolveDeferredMetadata")

\* C9: _resolveDeferredMetadata takes the ResolveBeamFutures branch exactly
\* when the wrapper has PCollections and reads dataset_metadata otherwise;
\* on both branches it returns metadata only if no future is left in them,
\* and fails with an assertion error, returning nothing, if one is.
C9_ResolveOrFail ==
    ResolveOps # <<>> =>
        LET wrapper == transformed_metadata[1]
            branch == ResolveOps[1].on
        IN  /\ Len(ResolveOps) = 1
            /\ branch = IF wrapper.pcollections # {} THEN "ResolveBeamFutures"
                        ELSE "dataset_metadata"
            /\ resolved_metadata # None =>
                   /\ resolved_metadata[1].futures = {}
                   /\ resolved_metadata[1].schema = wrapper.dataset_metadata.schema
                   /\ branch = "dataset_metadata" =>
                          resolved_metadata[1] = wrapper.dataset_metadata
            /\ resolved_metadata = None =>
                   /\ ppc = "raised"
                   /\ perr.type = "AssertionError"
                   /\ perr.check = "unresolved"
            /\ (branch = "dataset_metadata"
                    /\ wrapper.dataset_metadata.futures # {}) =>
                   resolved_metadata = None

\* The call has failed on a future that ResolveBeamFutures left in the
\* metadata.
C9_Witness ==
    /\ ppc = "raised"
    /\ perr.check = "unresolved"
    /\ transformed_metadata # None
    /\ transformed_metadata[1].pcollections # {}
    /\ resolved_metadata = None

\* The place of a step in the order of lines 144-190.
Rank(o) ==
    CASE o.op \in PipelineOpNames -> 0
      [] o.op = "WriteTransformFn" -> 1
      [] o.op = "assertDataCloseOrEqual" -> 2
      [] o.op = "_resolveDeferredMetadata" -> 3
      [] o.op \in {"core names", "full schema"} -> 4
      [] o.op \in {"core column", "full metadata"} -> 5
      [] OTHER -> 6

\* The checks whose failure an error may report, by the step that makes them.
ChecksOf(o) ==
    CASE o.op = "assertDataCloseOrEqual" -> {"len", "items", "value", "index"}
      [] o.op = "_resolveDeferredMetadata" -> {"unresolved"}
      [] o.op = "core names" -> {"core names"}
      [] o.op = "core column" -> {"representation", "dtype"}
      [] o.op = "full schema" -> {"full schema"}
      [] o.op = "full metadata" -> {"full metadata"}
      [] o.op = "asset file" -> {"asset open", "asset file"}
      [] OTHER -> {}

\* C10: the checks run in the order data, metadata (core names and columns,
\* or full schema then full metadata), asset files, each only if its
\* expectation was supplied and all of them if the call returns; the error of
\* a failed call is that of the last step made, so nothing runs after a
\* failure; asset files are read only after WriteTransformFn ran.
C10_ChecksInOrderFirstFailureEnds ==
    /\ \A m, n \in 1..Len(ops) :
           m < n =>
               /\ Rank(ops[m]) <= Rank(ops[n])
               /\ (Rank(ops[m]) = Rank(ops[n]) /\ Rank(ops[m]) > 0) =>
                      /\ ops[m].op \in {"core column", "asset file"}
                      /\ ops[m].op = ops[n].op
                      /\ ops[m].on # ops[n].on
    /\ HasOp("assertDataCloseOrEqual") => expected_data # None
    /\ \A n \in 1..Len(ops) :
           /\ Rank(ops[n]) \in 3..5 => expected_metadata # None
           /\ ops[n].op \in {"core names", "core column"} =>
                  only_check_core_metadata
           /\ ops[n].op \in {"full schema", "full metadata"} =>
                  ~only_check_core_metadata
           /\ ops[n].op = "asset file" =>
                  /\ ops[n].on \in DOMAIN expected_asset_file_contents[1]
                  /\ \E m \in 1..(n - 1) : ops[m].op = "WriteTransformFn"
    /\ ppc = "raised" =>
           /\ ops # <<>>
           /\ perr.check \in ChecksOf(ops[Len(ops)])
           /\ ops[Len(ops)].op \in {"core column", "asset file"} =>
                  perr.key = ops[Len(ops)].on
    /\ ppc # "raised" => perr = NoError
    /\ ppc = "returned" =>
           /\ expected_data # None => HasOp("assertDataCloseOrEqual")
           /\ expected_metadata # None =>
                  /\ HasOp("_resolveDeferredMetadata")
                  /\ IF only_check_core_metadata
                     THEN /\ HasOp("core names")
                          /\ \A k \in DOMAIN expected_metadata[1].schema :
                                 Op("core column", k) \in
                                     {ops[n] : n \in 1..Len(ops)}
                     ELSE HasOp("full schema") /\ HasOp("full metadata")
           /\ \A f \in DOMAIN expected_asset_file_contents[1] :
                  Op("asset file", f) \in {ops[n] : n \in 1..Len(ops)}

\* A call given all three expectations has passed the data and the full
\* metadata checks and failed on its second asset file.
C10_Witness ==
    /\ ppc = "raised"
    /\ perr.check = "asset file"
    /\ Len(ops) = 8
    /\ ops[2].op = "WriteTransformFn"
    /\ ops[3].op = "assertDataCloseOrEqual"
    /\ ops[5].op = "full schema"
    /\ ops[7].op = "asset file"

====
